---- MODULE Spec2Model ----
(***************************************************************************)
(* HOPE assessment form: the field value store kept by React Hook Form,   *)
(* the conditional rendering of the section components, the checkbox      *)
(* group toggle handler, the stale-data clearing effects of SectionM and  *)
(* SectionN, and the Z0400 signature list of SectionZ.                     *)
(*                                                                         *)
(* The store maps a dot-addressed field path to its value.  JavaScript's  *)
(* undefined, true and false are written "undefined", "true" and "false"  *)
(* so that one function can hold codes, dates, text and flags.            *)
(*                                                                         *)
(* A useEffect callback is a step of its own: React runs it after the     *)
(* render that followed the mutation.  React flushes the passive effects  *)
(* of a render before it dispatches the next user event, so an event      *)
(* handler is enabled only when no effect is pending.                     *)
(***************************************************************************)
EXTENDS Integers, Sequences, FiniteSets, TLC

VARIABLES
    page,        \* which page created the form: "update-visit" or "discharge"
    values,      \* form values other than Z0400: field path -> value
    Z0400,       \* the signature list managed by useFieldArray
    effectDeps,  \* per effect, the dependency value of its last run
    isSaving,    \* useState(false) of the page
    formData,    \* the local formData of a handleSaveDraft call in flight
    disabledClicks, \* the clicks that were ignored: "add" and "remove" on a
                    \* disabled signature button, "submit" on a form that
                    \* fails the constraint validation
    isSubmitting,   \* useState(false) of the page
    submitLog,      \* the records onSubmit has written to the console
    memoJ,          \* SectionJ useMemo: its last dependencies and value
    messages,       \* FAQChatbot: the messages of the chat window
    isLoading,      \* FAQChatbot: a reply is being prepared
    isOpen,         \* FAQChatbot: the chat window is open
    input,          \* FAQChatbot: the text of the chat input
    chatExiting,    \* FAQChatbot: the closed chat window that AnimatePresence
                    \* still shows, as it was last rendered
    exiting         \* SectionZ: the Remove buttons of removed entries that
                    \* AnimatePresence still shows, as they were last rendered

vars ==
    <<page, values, Z0400, effectDeps, isSaving, formData, disabledClicks,
      isSubmitting, submitLog, memoJ, messages, isLoading, isOpen, input,
                   chatExiting, exiting>>

----------------------------------------------------------------------------
(* Bounds of the model *)

\* number of non-Z options of a checkbox group the user clicks on
MaxOpt == 2
\* number of symptom slots of J2051 and of J2053 the user answers
MaxSlots == 2
\* number of leading signature entries the user types into
MaxTyped == 2
\* number of submissions followed
MaxSubmits == 2
\* number of questions put to the chatbot
MaxQuestions == 2
\* number of removed signature entries whose exit animation runs at once
MaxExiting == 2

----------------------------------------------------------------------------
(* Values *)

Undefined == "undefined"
True == "true"
False == "false"
Indeterminate == "indeterminate"

\* CheckedState of the Radix checkbox
CheckedState == {True, False, Indeterminate}

Range(s) == {s[i] : i \in DOMAIN s}

Min(a, b) == IF a < b THEN a ELSE b

----------------------------------------------------------------------------
(* Option tables (cms-codes) *)

RECORD_TYPES == <<"1", "2", "3">>

REASON_FOR_RECORD == <<"1", "2", "3", "4", "5", "6", "7", "8", "9">>

SITE_OF_SERVICE == <<"01", "02", "03", "04", "05", "06", "07", "08", "09", "99">>

SEX_OPTIONS == <<"1", "2">>

ETHNICITY_OPTIONS == <<"A", "B", "C", "D", "E", "X", "Y">>

RACE_OPTIONS ==
    <<"A", "B", "C", "D", "E", "F", "G", "H", "I", "J", "K", "L", "M", "N",
      "X", "Y", "Z">>

INTERPRETER_NEEDED == <<"0", "1", "9">>

PAYER_OPTIONS ==
    <<"A", "B", "C", "D", "E", "F", "G", "H", "I", "J", "K", "X", "Y">>

DEATH_IMMINENT_OPTIONS == <<"0", "1">>

YES_NO_OPTIONS == <<"0", "1">>

SYMPTOM_IMPACT_LEVELS == <<"0", "1", "2", "3", "9">>

SYMPTOM_TYPES == <<"A", "B", "C", "D", "E", "F", "G", "H">>

SFV_NOT_COMPLETED_REASONS == <<"1", "2", "3", "9">>

HAS_SKIN_CONDITIONS == <<"0", "1">>

SKIN_CONDITION_TYPES == <<"A", "B", "C", "D", "E", "F", "G", "H", "Y", "Z">>

SKIN_TREATMENTS == <<"A", "B", "C", "D", "E", "F", "G", "H", "I", "J", "Z">>

OPIOID_INITIATED == <<"0", "1">>

BOWEL_REGIMEN_OPTIONS == <<"0", "1", "2">>

\* VALIDATION_RULES.MAX_SIGNATURES, written as the literal 12 in SectionZ
MAX_SIGNATURES == 12

----------------------------------------------------------------------------
(* Field paths *)

\* `${name}.${option.value}`
FieldName(name, opt) == name \o "." \o opt

\* the checkbox groups rendered with FormCheckboxGroup
CheckboxGroups == {"A1005", "A1010", "A1400", "M1195", "M1200"}

\* the options prop each FormCheckboxGroup is rendered with
GroupOptions(name) ==
    CASE name = "A1005" -> ETHNICITY_OPTIONS
      [] name = "A1010" -> RACE_OPTIONS
      [] name = "A1400" -> PAYER_OPTIONS
      [] name = "M1195" -> SKIN_CONDITION_TYPES
      [] name = "M1200" -> SKIN_TREATMENTS

GroupPaths(name) == {FieldName(name, o) : o \in Range(GroupOptions(name))}

\* fields rendered with FormSelect, and the options prop of each
SelectOptions ==
    [x \in {"A0050", "A0250", "A0215", "A0810", "A1110.B", "J0050", "J2050.A",
            "J2052.A", "J2052.C", "M1190", "N0500.A", "N0510.A", "N0520.A"}
        \cup {FieldName("J2051", k) : k \in Range(SYMPTOM_TYPES)}
        \cup {FieldName("J2053", k) : k \in Range(SYMPTOM_TYPES)} |->
     CASE x = "A0050" -> RECORD_TYPES
       [] x = "A0250" -> REASON_FOR_RECORD
       [] x = "A0810" -> SEX_OPTIONS
       [] x = "J0050" -> DEATH_IMMINENT_OPTIONS
       [] x = "A0215" -> SITE_OF_SERVICE
       [] x = "A1110.B" -> INTERPRETER_NEEDED
       [] x \in {"J2050.A", "J2052.A"} -> YES_NO_OPTIONS
       [] x = "J2052.C" -> SFV_NOT_COMPLETED_REASONS
       [] x = "M1190" -> HAS_SKIN_CONDITIONS
       [] x \in {"N0500.A", "N0510.A"} -> OPIOID_INITIATED
       [] x = "N0520.A" -> BOWEL_REGIMEN_OPTIONS
       [] OTHER -> SYMPTOM_IMPACT_LEVELS]

SelectFields == DOMAIN SelectOptions

\* fields rendered with FormDate
DateFields ==
    {"A0220", "A0220_C", "A0900", "J2050.B", "J2052.B", "N0500.B", "N0510.B",
     "N0520.B", "Z0350", "Z0500.B"}

\* fields rendered with FormInput
InputFields ==
    {"A0100_A", "A0100_B", "A0100_C", "A0200", "A0205", "A0320_B", "A0500_A",
     "A0500_B", "A0500_C", "A0500_D", "A0998", "A0600_A", "A0600_B", "A0700",
     "A1805", "A1110.A", "Z0500.A"}

Paths ==
    SelectFields \cup DateFields \cup InputFields
        \cup UNION {GroupPaths(g) : g \in CheckboxGroups}

\* form.getValues(path) / form.watch(path)
getValues(v, path) == v[path]

\* form.setValue(path, value) and field.onChange(value)
setValue(v, path, value) == [v EXCEPT ![path] = value]

\* form.setValue(path, value) for each path of a set, as done by a forEach
setAll(v, paths, value) == [p \in DOMAIN v |-> IF p \in paths THEN value ELSE v[p]]

----------------------------------------------------------------------------
(* Conditional logic watchers of the section components *)

isAdmissionOrUpdate(v) == getValues(v, "A0250") \in {"1", "2"}

\* SectionA: reasonForRecord === "1"
isAdmission(v) == getValues(v, "A0250") = "1"

\* SectionJ: screeningCompleted === "1"
showSymptomAssessment(v) == getValues(v, "J2050.A") = "1"

\* the memo without its check that the assessment is visible
hasModerateOrSevereSymptomLocal(v) ==
    \E i \in DOMAIN SYMPTOM_TYPES :
        getValues(v, FieldName("J2051", SYMPTOM_TYPES[i])) \in {"2", "3"}

\* SectionJ: useMemo over showSymptomAssessment and the eight J2051 values
hasModerateOrSevereSymptom(v) ==
    IF ~showSymptomAssessment(v) THEN FALSE
    ELSE \E i \in DOMAIN SYMPTOM_TYPES :
            getValues(v, FieldName("J2051", SYMPTOM_TYPES[i])) \in {"2", "3"}

showSFVSection(v) == hasModerateOrSevereSymptom(v)

\* the dependency array of a useMemo without showSymptomAssessment
memoDepsSymptomsOnly(v) ==
    [i \in 1..Len(SYMPTOM_TYPES) |->
        getValues(v, FieldName("J2051", SYMPTOM_TYPES[i]))]

\* the dependency array of the useMemo: showSymptomAssessment, j2051_A..H
memoDeps(v) ==
    <<IF showSymptomAssessment(v) THEN True ELSE False>>
        \o [i \in 1..Len(SYMPTOM_TYPES) |->
              getValues(v, FieldName("J2051", SYMPTOM_TYPES[i]))]

\* useMemo in a render with values v: the callback runs when a dependency
\* differs from the one of the last run, else the kept value is returned
useMemo(memo, v) ==
    IF memo.deps = memoDeps(v) THEN memo
    ELSE [deps |-> memoDeps(v), value |-> hasModerateOrSevereSymptom(v)]

\* useMemo in the first render
mountMemo(v) == [deps |-> memoDeps(v), value |-> hasModerateOrSevereSymptom(v)]

showSFVDate(v) == getValues(v, "J2052.A") = "1"

showSFVReasonAnswered(v) == getValues(v, "J2052.A") \in {"0", "1"}

showSFVReason(v) == getValues(v, "J2052.A") = "0"

showSFVSymptomImpact(v) == showSFVSection(v) /\ getValues(v, "J2052.A") = "1"

\* SectionM: hasSkinConditions === "1"
showSkinDetails(v) == getValues(v, "M1190") = "1"

\* SectionN
showScheduledOpioidDate(v) == getValues(v, "N0500.A") = "1"

showPRNOpioidDate(v) == getValues(v, "N0510.A") = "1"

showBowelRegimenBoth(v) ==
    getValues(v, "N0500.A") = "1" /\ getValues(v, "N0510.A") = "1"

showBowelRegimen(v) ==
    getValues(v, "N0500.A") = "1" \/ getValues(v, "N0510.A") = "1"

showBowelRegimenDate(v) == getValues(v, "N0520.A") = "2"

\* The condition under which the JSX of the sections renders the input of a
\* field: the fields in this set are the active fields of the record.
Rendered(v, path) ==
    CASE path \in {"A0205", "A0215", "A0998", "A1805", "A1110.A", "A1110.B"}
            \cup GroupPaths("A1005") \cup GroupPaths("A1010")
            -> isAdmission(v)
      [] path = "J2050.B" -> showSymptomAssessment(v)
      [] path \in {FieldName("J2051", k) : k \in Range(SYMPTOM_TYPES)}
            -> showSymptomAssessment(v)
      [] path = "J2052.A" -> showSFVSection(v)
      [] path = "J2052.B" -> showSFVSection(v) /\ showSFVDate(v)
      [] path = "J2052.C" -> showSFVSection(v) /\ showSFVReason(v)
      [] path \in {FieldName("J2053", k) : k \in Range(SYMPTOM_TYPES)}
            -> showSFVSymptomImpact(v)
      [] path \in GroupPaths("M1195") \cup GroupPaths("M1200")
            -> showSkinDetails(v)
      [] path = "N0500.B" -> showScheduledOpioidDate(v)
      [] path = "N0510.B" -> showPRNOpioidDate(v)
      [] path = "N0520.A" -> showBowelRegimen(v)
      [] path = "N0520.B" -> showBowelRegimen(v) /\ showBowelRegimenDate(v)
      [] OTHER -> TRUE

ActiveSet(v) == {p \in Paths : Rendered(v, p)}

----------------------------------------------------------------------------
(* FormCheckboxGroup: the onCheckedChange handler of option opt *)

\* onCheckedChange without the branch that unchecks Z for a regular option
onCheckedChangeKeepsZ(v, name, options, opt, checked) ==
    LET isZOption == opt = "Z"
        isBeingChecked == checked = True
        others == {FieldName(name, o) : o \in Range(options) \ {"Z"}}
        v1 == IF isZOption /\ isBeingChecked THEN setAll(v, others, False) ELSE v
    IN  setValue(v1, FieldName(name, opt), IF checked = True THEN True ELSE False)

\* onCheckedChange storing the reported state as it is
onCheckedChangeRaw(v, name, options, opt, checked) ==
    LET isZOption == opt = "Z"
        isBeingChecked == checked = True
        zFieldName == FieldName(name, "Z")
        others == {FieldName(name, o) : o \in Range(options) \ {"Z"}}
        v1 == IF isZOption /\ isBeingChecked THEN setAll(v, others, False)
              ELSE IF ~isZOption /\ isBeingChecked
                THEN IF zFieldName \in DOMAIN v /\ getValues(v, zFieldName) = True
                       THEN setValue(v, zFieldName, False) ELSE v
              ELSE v
    IN  setValue(v1, FieldName(name, opt), checked)

\* onCheckedChange treating "K" as an exclusive option like "Z"
onCheckedChangeKExclusive(v, name, options, opt, checked) ==
    LET isZOption == opt \in {"Z", "K"}
        isBeingChecked == checked = True
        zFieldName == FieldName(name, "Z")
        others == {FieldName(name, o) : o \in Range(options) \ {opt}}
        v1 == IF isZOption /\ isBeingChecked THEN setAll(v, others, False)
              ELSE IF ~isZOption /\ isBeingChecked
                THEN IF zFieldName \in DOMAIN v /\ getValues(v, zFieldName) = True
                       THEN setValue(v, zFieldName, False) ELSE v
              ELSE v
    IN  setValue(v1, FieldName(name, opt), IF checked = True THEN True ELSE False)

\* onCheckedChange clearing, on a check of Z, the options of every group
onCheckedChangeAcrossGroups(v, name, options, opt, checked) ==
    LET isZOption == opt = "Z"
        isBeingChecked == checked = True
        zFieldName == FieldName(name, "Z")
        others == {p \in DOMAIN v : \E g \in CheckboxGroups :
                     p \in {FieldName(g, o) : o \in Range(GroupOptions(g)) \ {"Z"}}}
        v1 == IF isZOption /\ isBeingChecked THEN setAll(v, others, False)
              ELSE IF ~isZOption /\ isBeingChecked
                THEN IF zFieldName \in DOMAIN v /\ getValues(v, zFieldName) = True
                       THEN setValue(v, zFieldName, False) ELSE v
              ELSE v
    IN  setValue(v1, FieldName(name, opt), IF checked = True THEN True ELSE False)

onCheckedChange(v, name, options, opt, checked) ==
    LET isZOption == opt = "Z"
        isBeingChecked == checked = True
        zFieldName == FieldName(name, "Z")
        others == {FieldName(name, o) : o \in Range(options) \ {"Z"}}
        v1 == IF isZOption /\ isBeingChecked
                THEN setAll(v, others, False)
              ELSE IF ~isZOption /\ isBeingChecked
                THEN IF zFieldName \in DOMAIN v /\ getValues(v, zFieldName) = True
                       THEN setValue(v, zFieldName, False)
                       ELSE v
              ELSE v
    IN  setValue(v1, FieldName(name, opt), IF checked = True THEN True ELSE False)

----------------------------------------------------------------------------
(* Stale-data clearing effects *)

\* the SectionM effect body without its second forEach
clearSkinDetailsM1195Only(v) ==
    IF ~showSkinDetails(v) THEN setAll(v, GroupPaths("M1195"), False) ELSE v

\* the SectionM effect body resetting its trigger as well
clearSkinDetailsAndTrigger(v) ==
    IF ~showSkinDetails(v)
      THEN setValue(
             setAll(setAll(v, GroupPaths("M1195"), False), GroupPaths("M1200"), False),
             "M1190", Undefined)
      ELSE v

\* SectionM useEffect body
clearSkinDetails(v) ==
    IF ~showSkinDetails(v)
      THEN setAll(setAll(v, GroupPaths("M1195"), False), GroupPaths("M1200"), False)
      ELSE v

\* the SectionN effect body without its second setValue
clearBowelRegimenStatusOnly(v) ==
    IF ~showBowelRegimen(v) THEN setValue(v, "N0520.A", Undefined) ELSE v

\* the SectionN effect body clearing one field per run, the date first
clearBowelRegimenInStages(v) ==
    IF ~showBowelRegimen(v)
      THEN IF getValues(v, "N0520.B") # Undefined
             THEN setValue(v, "N0520.B", Undefined)
             ELSE setValue(v, "N0520.A", Undefined)
      ELSE v

\* SectionN useEffect body
clearBowelRegimen(v) ==
    IF ~showBowelRegimen(v)
      THEN setValue(setValue(v, "N0520.A", Undefined), "N0520.B", Undefined)
      ELSE v

\* one run of the clearing effects on the values of a render, in the order
\* in which the pages mount SectionM and SectionN
reconcile(v) == clearBowelRegimen(clearSkinDetails(v))

----------------------------------------------------------------------------
(* SectionZ: the signature list *)

EmptySignature == [signature |-> "", title |-> "", sections |-> "", date |-> ""]

\* useFieldArray append
append(list, entry) == Append(list, entry)

\* useFieldArray remove(index), index counted from 0
remove(list, index) ==
    [i \in 1..(Len(list) - 1) |-> IF i <= index THEN list[i] ELSE list[i + 1]]

\* the init effect body appending twice on an empty list
initSignaturesTwice(list) ==
    IF Len(list) = 0
      THEN append(append(list, EmptySignature), EmptySignature) ELSE list

\* SectionZ init useEffect body
initSignatures(list) ==
    IF Len(list) = 0 THEN append(list, EmptySignature) ELSE list

\* SectionZ.addSignature
addSignature(list) ==
    IF Len(list) < MAX_SIGNATURES THEN append(list, EmptySignature) ELSE list

\* disabled attribute of the Remove button
removeDisabled(list) == Len(list) = 1

\* disabled attribute of the Add Signature button
addDisabled(list) == Len(list) >= MAX_SIGNATURES

----------------------------------------------------------------------------
(* FormDate: the stored string of a date *)

Pad2(n) ==
    LET digits == <<"0", "1", "2", "3", "4", "5", "6", "7", "8", "9">>
    IN  digits[((n \div 10) % 10) + 1] \o digits[(n % 10) + 1]

Pad4(n) == Pad2(n \div 100) \o Pad2(n % 100)

\* format(date, "yyyy-dd-MM"): day and month exchanged
formatDayFirst(date) == Pad4(date[1]) \o "-" \o Pad2(date[3]) \o "-" \o Pad2(date[2])

\* date-fns format(date, "yyyy-MM-dd"), a date being <<year, month, day>>
format(date) == Pad4(date[1]) \o "-" \o Pad2(date[2]) \o "-" \o Pad2(date[3])

\* the years the user enters
Years == {2024, 2099}

\* the digit groups a text of the shape dddd-dd-dd can carry
DigitGroups == {<<y, m, d>> : y \in Years, m \in 0..13, d \in 0..32}

\* the text dddd-dd-dd that carries the digit groups g
digitText(g) == Pad4(g[1]) \o "-" \o Pad2(g[2]) \o "-" \o Pad2(g[3])

DateShapedTexts == {digitText(g) : g \in DigitGroups}

\* value.match(/^\d{4}-\d{2}-\d{2}$/), and the pattern attribute of the input
matchesDatePattern(text) == text \in DateShapedTexts

isLeapYear(y) == (y % 4 = 0 /\ y % 100 # 0) \/ y % 400 = 0

getDaysInMonth(y, m) ==
    IF m = 2 THEN (IF isLeapYear(y) THEN 29 ELSE 28)
    ELSE IF m \in {4, 6, 9, 11} THEN 30 ELSE 31

InvalidDate == <<>>

\* the digit groups read from a text that matches the pattern
digitGroupsOf ==
    [t \in DateShapedTexts |-> CHOOSE g \in DigitGroups : digitText(g) = t]

\* date-fns parse(text, "yyyy-MM-dd", new Date()) of a text that matches the
\* pattern: Invalid Date when the month or the day is out of range
parse(text) ==
    LET g == digitGroupsOf[text]
    IN  IF g[2] \in 1..12 /\ g[3] \in 1..getDaysInMonth(g[1], g[2])
          THEN g ELSE InvalidDate

\* date-fns isValid(date)
isValid(date) == date # InvalidDate

\* date > other of two valid dates
isAfter(date, other) ==
    \/ date[1] > other[1]
    \/ date[1] = other[1] /\ date[2] > other[2]
    \/ date[1] = other[1] /\ date[2] = other[2] /\ date[3] > other[3]

\* new Date(): the day on which the form is edited and submitted
Today == <<2024, 6, 1>>

\* the default of the maxDate prop of FormDate
maxDate == Today

\* the disabled prop of the Calendar; no section passes minDate or disabled
calendarDisabled(date) == isAfter(date, maxDate)

----------------------------------------------------------------------------
(* FAQChatbot.  A question is the sequence of its characters, so that      *)
(* toLowerCase and includes can be computed; an answer is a text.           *)

FAQS ==
    <<
      [id |-> "what-is-hope",
         answer |->
           "HOPE (Hospice Outcomes and Patient Evaluation) v1.01 is a " \o
           "CMS-required standardized assessment tool used by hospice " \o
           "organizations to collect comprehensive patient data. It " \o
           "ensures compliance with CMS regulations and improves " \o
           "quality of care.",
         keywords |-> << <<"h", "o", "p", "e">>, <<"w", "h", "a", "t">>,
                       <<"a", "s", "s", "e", "s", "s", "m", "e", "n", "t">>,
                       <<"c", "m", "s">> >>],
      [id |-> "three-types",
         answer |->
           "The three main HOPE assessment types are: (1) Admission " \o
           "(ADM) - initial comprehensive assessment at hospice " \o
           "admission, (2) Update Visit (HUV) - periodic reassessment " \o
           "during first 30 days, and (3) Discharge (DC) - final " \o
           "assessment upon discharge from hospice.",
         keywords |-> << <<"t", "y", "p", "e", "s">>,
                       <<"a", "d", "m", "i", "s", "s", "i", "o", "n">>,
                       <<"u", "p", "d", "a", "t", "e">>,
                       <<"d", "i", "s", "c", "h", "a", "r", "g", "e">>,
                       <<"t", "h", "r", "e", "e">> >>],
      [id |-> "save-draft",
         answer |->
           "Click the 'Save Draft' button in the top-right corner of " \o
           "any assessment form. Your progress will be saved locally, " \o
           "allowing you to return and complete the form later without " \o
           "losing any data.",
         keywords |-> << <<"s", "a", "v", "e">>, <<"d", "r", "a", "f", "t">>,
                       <<"p", "r", "o", "g", "r", "e", "s", "s">>,
                       <<"w", "o", "r", "k">> >>],
      [id |-> "required-fields",
         answer |->
           "All fields marked with a red asterisk (*) are required per " \o
           "CMS regulations. The assessment cannot be submitted " \o
           "without completing all required fields. Our system " \o
           "validates this automatically before submission.",
         keywords |-> << <<"r", "e", "q", "u", "i", "r", "e", "d">>,
                       <<"f", "i", "e", "l", "d", "s">>,
                       <<"a", "s", "t", "e", "r", "i", "s", "k">>,
                       <<"m", "a", "n", "d", "a", "t", "o", "r", "y">> >>],
      [id |-> "skip-patterns",
         answer |->
           "Skip patterns are conditional logic rules that show or " \o
           "hide certain fields based on your responses to other " \o
           "questions. This ensures you only answer questions relevant " \o
           "to the patient's situation and improves assessment " \o
           "accuracy.",
         keywords |-> << <<"s", "k", "i", "p">>,
                       <<"p", "a", "t", "t", "e", "r", "n", "s">>,
                       <<"c", "o", "n", "d", "i", "t", "i", "o", "n", "a", "l">>,
                       <<"l", "o", "g", "i", "c">>,
                       <<"h", "i", "d", "d", "e", "n">> >>],
      [id |-> "dates-format",
         answer |->
           "All dates should be entered in MM/DD/YYYY format using the " \o
           "date picker provided in the form. The system will validate " \o
           "that dates are logical (e.g., admission date cannot be " \o
           "after current assessment date).",
         keywords |-> << <<"d", "a", "t", "e", "s">>,
                       <<"f", "o", "r", "m", "a", "t">>,
                       <<"m", "m", "/", "d", "d", "/", "y", "y", "y", "y">>,
                       <<"e", "n", "t", "r", "y">> >>],
      [id |-> "section-a",
         answer |->
           "Section A collects Administrative Information including " \o
           "type of record, provider numbers, patient demographics, " \o
           "admission/assessment dates, and payer information. This " \o
           "section establishes the assessment context and patient " \o
           "identity.",
         keywords |-> << <<"s", "e", "c", "t", "i", "o", "n">>, <<"a">>,
                       <<"a", "d", "m", "i", "n", "i", "s", "t", "r", "a", "t", "i", "v", "e">>,
                       <<"p", "a", "t", "i", "e", "n", "t">>,
                       <<"d", "e", "m", "o", "g", "r", "a", "p", "h", "i", "c", "s">> >>],
      [id |-> "section-j",
         answer |->
           "Section J assesses Health Conditions including whether " \o
           "death is imminent and symptom impact screening (pain, " \o
           "dyspnea, nausea/vomiting, constipation). It helps identify " \o
           "patient needs and guide care planning.",
         keywords |-> << <<"s", "e", "c", "t", "i", "o", "n">>, <<"j">>,
                       <<"h", "e", "a", "l", "t", "h">>,
                       <<"c", "o", "n", "d", "i", "t", "i", "o", "n", "s">>,
                       <<"s", "y", "m", "p", "t", "o", "m", "s">> >>],
      [id |-> "section-m",
         answer |->
           "Section M addresses Skin Conditions, documenting the " \o
           "presence of pressure injuries, stasis ulcers, and surgical " \o
           "wounds. It tracks skin integrity and treatments to prevent " \o
           "complications.",
         keywords |-> << <<"s", "e", "c", "t", "i", "o", "n">>, <<"m">>,
                       <<"s", "k", "i", "n">>,
                       <<"c", "o", "n", "d", "i", "t", "i", "o", "n", "s">>,
                       <<"w", "o", "u", "n", "d", "s">> >>],
      [id |-> "section-n",
         answer |->
           "Section N covers Medications, specifically tracking " \o
           "scheduled and PRN opioid use and bowel regimen management. " \o
           "It's critical for managing pain and preventing " \o
           "opioid-related complications like constipation.",
         keywords |-> << <<"s", "e", "c", "t", "i", "o", "n">>, <<"n">>,
                       <<"m", "e", "d", "i", "c", "a", "t", "i", "o", "n", "s">>,
                       <<"o", "p", "i", "o", "i", "d">>,
                       <<"b", "o", "w", "e", "l">> >>],
      [id |-> "section-z",
         answer |->
           "Section Z is Record Administration, capturing the " \o
           "assessment completion date, signatures from clinical staff " \o
           "and supervisors, and verification information. It ensures " \o
           "accountability and documentation of assessment review.",
         keywords |-> << <<"s", "e", "c", "t", "i", "o", "n">>, <<"z">>,
                       <<"r", "e", "c", "o", "r", "d">>,
                       <<"a", "d", "m", "i", "n", "i", "s", "t", "r", "a", "t", "i", "o", "n">>,
                       <<"s", "i", "g", "n", "a", "t", "u", "r", "e">> >>],
      [id |-> "validation-errors",
         answer |->
           "Validation errors appear when required fields are empty or " \o
           "contain invalid data. Check the error messages, complete " \o
           "all red-marked fields, ensure dates are in correct format, " \o
           "and verify all answers are properly selected before " \o
           "resubmitting.",
         keywords |-> << <<"v", "a", "l", "i", "d", "a", "t", "i", "o", "n">>,
                       <<"e", "r", "r", "o", "r">>,
                       <<"r", "e", "q", "u", "i", "r", "e", "d">>,
                       <<"f", "i", "x">>, <<"s", "u", "b", "m", "i", "t">> >>],
      [id |-> "accessibility",
         answer |->
           "Yes! The HOPE Assessment platform is WCAG 2.1 AA " \o
           "compliant, supporting keyboard navigation, screen readers, " \o
           "and high contrast modes. All form fields have clear labels " \o
           "and helpful tooltips.",
         keywords |-> << <<"a", "c", "c", "e", "s", "s", "i", "b", "l", "e">>,
                       <<"a", "c", "c", "e", "s", "s", "i", "b", "i", "l", "i", "t", "y">>,
                       <<"w", "c", "a", "g">>,
                       <<"k", "e", "y", "b", "o", "a", "r", "d">>,
                       <<"s", "c", "r", "e", "e", "n", " ", "r", "e", "a", "d", "e", "r">> >>],
      [id |-> "dark-mode",
         answer |->
           "Click the moon/sun icon in the header to toggle between " \o
           "light and dark mode. Your preference is saved " \o
           "automatically and will be remembered on future visits.",
         keywords |-> << <<"d", "a", "r", "k">>, <<"m", "o", "d", "e">>,
                       <<"t", "h", "e", "m", "e">>,
                       <<"l", "i", "g", "h", "t">>,
                       <<"t", "o", "g", "g", "l", "e">> >>],
      [id |-> "support",
         answer |->
           "You can use this chatbot to ask questions about HOPE " \o
           "assessment. For technical issues or CMS compliance " \o
           "questions, contact your system administrator or refer to " \o
           "the CMS HOPE v1.01 documentation.",
         keywords |-> << <<"h", "e", "l", "p">>,
                       <<"s", "u", "p", "p", "o", "r", "t">>,
                       <<"c", "o", "n", "t", "a", "c", "t">>,
                       <<"q", "u", "e", "s", "t", "i", "o", "n">>,
                       <<"a", "s", "s", "i", "s", "t", "a", "n", "c", "e">> >>]
    >>

Greeting ==
    "Hi! I'm the HOPE Assistant. I can answer questions about " \o
    "assessments, fields, and how to use this platform. What would you " \o
    "like to know?"

Fallback ==
    "I'm not sure about that. Try asking about specific sections (A, J, " \o
    "M, N, Z), assessment types, dates, or other HOPE-related topics."

UpperCase == <<"A", "B", "C", "D", "E", "F", "G", "H", "I", "J", "K", "L", "M",
               "N", "O", "P", "Q", "R", "S", "T", "U", "V", "W", "X", "Y", "Z">>

LowerCase == <<"a", "b", "c", "d", "e", "f", "g", "h", "i", "j", "k", "l", "m",
               "n", "o", "p", "q", "r", "s", "t", "u", "v", "w", "x", "y", "z">>

\* String.prototype.toLowerCase
toLowerCase(s) ==
    [i \in 1..Len(s) |->
        IF \E k \in 1..Len(UpperCase) : UpperCase[k] = s[i]
          THEN LowerCase[CHOOSE k \in 1..Len(UpperCase) : UpperCase[k] = s[i]]
          ELSE s[i]]

\* String.prototype.includes
includes(s, keyword) ==
    \E i \in 0..(Len(s) - Len(keyword)) :
        SubSeq(s, i + 1, i + Len(keyword)) = keyword

\* String.prototype.trim of an input of letters, spaces and punctuation
trim(s) ==
    LET inked == {i \in 1..Len(s) : s[i] # " "}
    IN  IF inked = {} THEN <<>>
        ELSE SubSeq(s, CHOOSE i \in inked : \A j \in inked : i <= j,
                       CHOOSE i \in inked : \A j \in inked : j <= i)

Null == "null"

\* FAQChatbot.findAnswerForQuestion: the answer of the first entry of FAQS
\* one of whose keywords the lower-cased question includes, else null
findAnswerForQuestion(question) ==
    LET lowerQuestion == toLowerCase(question)
        matching == {i \in 1..Len(FAQS) :
                       \E k \in 1..Len(FAQS[i].keywords) :
                           includes(lowerQuestion, FAQS[i].keywords[k])}
    IN  IF matching = {} THEN Null
        ELSE FAQS[CHOOSE i \in matching : \A j \in matching : i <= j].answer

----------------------------------------------------------------------------
(* Initial state: useForm({ defaultValues }) of the two pages *)

Pages == {"update-visit", "discharge"}

\* defaultValues.A0250 of the page
DefaultA0250(p) == IF p = "update-visit" THEN "2" ELSE "6"

defaultValues(p) ==
    [x \in Paths |-> IF x = "A0250" THEN DefaultA0250(p) ELSE Undefined]

BoolStr(b) == IF b THEN True ELSE False

InitPage(p) ==
    /\ page = p
    /\ values = defaultValues(p)
    /\ Z0400 = <<>>
    /\ effectDeps = [M |-> "unmounted", N |-> "unmounted", Z |-> -1]
    /\ isSaving = FALSE
    /\ formData = <<>>
    /\ disabledClicks = {}
    /\ isSubmitting = FALSE
    /\ submitLog = <<>>
    /\ memoJ = mountMemo(defaultValues(p))
    /\ messages = <<[type |-> "bot", content |-> Greeting]>>
    /\ isLoading = FALSE
    /\ isOpen = FALSE
    /\ input = <<>>
    /\ chatExiting = <<>>
    /\ exiting = {}

Init == \E p \in Pages : InitPage(p)

----------------------------------------------------------------------------
(* Passive effects.  An effect runs after the first render and after every  *)
(* render in which one of its dependencies changed.                         *)

SectionMEffectPending == effectDeps.M # BoolStr(showSkinDetails(values))

SectionNEffectPending == effectDeps.N # BoolStr(showBowelRegimen(values))

SectionZEffectPending == effectDeps.Z # Len(Z0400)

EffectsPending ==
    SectionMEffectPending \/ SectionNEffectPending \/ SectionZEffectPending

\* SectionM useEffect, deps [showSkinDetails, form]
SectionMEffect ==
    /\ SectionMEffectPending
    /\ values' = clearSkinDetails(values)
    /\ effectDeps' = [effectDeps EXCEPT !.M = BoolStr(showSkinDetails(values))]
    /\ memoJ' = useMemo(memoJ, values')
    /\ UNCHANGED <<page, Z0400, isSaving, formData, disabledClicks,
                   isSubmitting, submitLog,
                   messages, isLoading, isOpen, input,
                   chatExiting, exiting>>

\* SectionN useEffect, deps [showBowelRegimen, form]
SectionNEffect ==
    /\ SectionNEffectPending
    /\ values' = clearBowelRegimen(values)
    /\ effectDeps' = [effectDeps EXCEPT !.N = BoolStr(showBowelRegimen(values))]
    /\ memoJ' = useMemo(memoJ, values')
    /\ UNCHANGED <<page, Z0400, isSaving, formData, disabledClicks,
                   isSubmitting, submitLog,
                   messages, isLoading, isOpen, input,
                   chatExiting, exiting>>

\* SectionZ useEffect, deps [fields.length, append]
SectionZEffect ==
    /\ SectionZEffectPending
    /\ Z0400' = initSignatures(Z0400)
    /\ effectDeps' = [effectDeps EXCEPT !.Z = Len(Z0400)]
    /\ UNCHANGED <<page, values, isSaving, formData, disabledClicks,
                   isSubmitting, submitLog, memoJ,
                   messages, isLoading, isOpen, input,
                   chatExiting, exiting>>

Effects == SectionMEffect \/ SectionNEffect \/ SectionZEffect

----------------------------------------------------------------------------
(* Event handlers of the rendered inputs *)

\* FormSelect: onValueChange={field.onChange}
SelectChange(name, value) ==
    /\ ~EffectsPending
    /\ Rendered(values, name)
    /\ values' = setValue(values, name, value)
    /\ memoJ' = useMemo(memoJ, values')
    /\ UNCHANGED <<page, Z0400, effectDeps, isSaving, formData, disabledClicks,
                   isSubmitting, submitLog,
                   messages, isLoading, isOpen, input,
                   chatExiting, exiting>>

\* FormInput: form.register(name) stores the typed text
InputChange(name, text) ==
    /\ ~EffectsPending
    /\ Rendered(values, name)
    /\ values' = setValue(values, name, text)
    /\ memoJ' = useMemo(memoJ, values')
    /\ UNCHANGED <<page, Z0400, effectDeps, isSaving, formData, disabledClicks,
                   isSubmitting, submitLog,
                   messages, isLoading, isOpen, input,
                   chatExiting, exiting>>

\* FormDate.handleTextInput: field.onChange(e.target.value)
handleTextInput(name, text) ==
    /\ ~EffectsPending
    /\ Rendered(values, name)
    /\ values' = setValue(values, name, text)
    /\ memoJ' = useMemo(memoJ, values')
    /\ UNCHANGED <<page, Z0400, effectDeps, isSaving, formData, disabledClicks,
                   isSubmitting, submitLog,
                   messages, isLoading, isOpen, input,
                   chatExiting, exiting>>

\* FormDate.handleDateSelect: a date picked among the days the calendar
\* enables, or <<>> when the selected day is deselected
handleDateSelect(name, date) ==
    /\ ~EffectsPending
    /\ Rendered(values, name)
    /\ IF date = <<>> THEN TRUE ELSE ~calendarDisabled(date)
    /\ values' = setValue(values, name, IF date # <<>> THEN format(date) ELSE "")
    /\ memoJ' = useMemo(memoJ, values')
    /\ UNCHANGED <<page, Z0400, effectDeps, isSaving, formData, disabledClicks,
                   isSubmitting, submitLog,
                   messages, isLoading, isOpen, input,
                   chatExiting, exiting>>

\* FormCheckboxGroup: a click on the checkbox of option opt of group name
CheckboxChange(name, opt, checked) ==
    /\ ~EffectsPending
    /\ Rendered(values, FieldName(name, opt))
    /\ values' = onCheckedChange(values, name, GroupOptions(name), opt, checked)
    /\ memoJ' = useMemo(memoJ, values')
    /\ UNCHANGED <<page, Z0400, effectDeps, isSaving, formData, disabledClicks,
                   isSubmitting, submitLog,
                   messages, isLoading, isOpen, input,
                   chatExiting, exiting>>

\* SectionZ: click on Add Signature; a disabled button ignores the click
ClickAddSignature ==
    /\ ~EffectsPending
    /\ Z0400' = IF addDisabled(Z0400) THEN Z0400 ELSE addSignature(Z0400)
    /\ disabledClicks' =
         IF addDisabled(Z0400) THEN disabledClicks \cup {"add"} ELSE disabledClicks
    /\ UNCHANGED <<page, values, effectDeps, isSaving, formData, isSubmitting,
                   submitLog, memoJ,
                   messages, isLoading, isOpen, input,
                   chatExiting, exiting>>

\* SectionZ: click on Remove of entry index (from 0); disabled when one is
\* left.  AnimatePresence keeps the removed entry on the page, with the
\* props of its last render, until its exit animation ends.
ClickRemove(index) ==
    /\ ~EffectsPending
    /\ index \in 0..(Len(Z0400) - 1)
    /\ IF removeDisabled(Z0400)
         THEN /\ disabledClicks' = disabledClicks \cup {"remove"}
              /\ UNCHANGED <<Z0400, exiting>>
         ELSE /\ Cardinality(exiting) < MaxExiting
              /\ Z0400' = remove(Z0400, index)
              /\ exiting' = exiting \cup
                    {[index |-> index, disabled |-> removeDisabled(Z0400)]}
              /\ UNCHANGED disabledClicks
    /\ UNCHANGED <<page, values, effectDeps, isSaving, formData, isSubmitting,
                   submitLog, memoJ, messages, isLoading, isOpen, input,
                   chatExiting>>

\* SectionZ: click on the Remove button of a removed entry during its exit
\* animation: the button is as it was last rendered, onClick={() =>
\* remove(index)} with the index and the disabled value of that render;
\* remove of an index the list does not have removes nothing
ClickStaleRemove(button) ==
    /\ ~EffectsPending
    /\ button \in exiting
    /\ IF button.disabled
         THEN /\ disabledClicks' = disabledClicks \cup {"remove"}
              /\ UNCHANGED <<Z0400, exiting>>
         ELSE IF button.index < Len(Z0400)
           THEN /\ Z0400' = remove(Z0400, button.index)
                /\ exiting' = exiting \cup
                      {[index |-> button.index,
                        disabled |-> removeDisabled(Z0400)]}
                /\ Cardinality(exiting') <= MaxExiting
                /\ UNCHANGED disabledClicks
           ELSE UNCHANGED <<Z0400, exiting, disabledClicks>>
    /\ UNCHANGED <<page, values, effectDeps, isSaving, formData, isSubmitting,
                   submitLog, memoJ, messages, isLoading, isOpen, input,
                   chatExiting>>

\* SectionZ: the exit animation of a removed entry ends (0.3 s) and
\* AnimatePresence takes the entry off the page
exitComplete(button) ==
    /\ button \in exiting
    /\ exiting' = exiting \ {button}
    /\ UNCHANGED <<page, values, Z0400, effectDeps, isSaving, formData,
                   disabledClicks, isSubmitting, submitLog, memoJ, messages,
                   isLoading, isOpen,
                   input, chatExiting>>

\* SectionZ: FormInput `Z0400.${index}.${part}` of the parts signature,
\* title and sections; form.register stores the text
SignatureInputChange(index, part, text) ==
    /\ ~EffectsPending
    /\ index \in 0..(Len(Z0400) - 1)
    /\ part \in {"signature", "title", "sections"}
    /\ Z0400' = [Z0400 EXCEPT ![index + 1][part] = text]
    /\ UNCHANGED <<page, values, effectDeps, isSaving, formData, disabledClicks,
                   isSubmitting, submitLog, memoJ,
                   messages, isLoading, isOpen, input,
                   chatExiting, exiting>>

\* SectionZ: FormDate `Z0400.${index}.date`, handleTextInput stores the text
SignatureDateTextInput(index, text) ==
    /\ ~EffectsPending
    /\ index \in 0..(Len(Z0400) - 1)
    /\ Z0400' = [Z0400 EXCEPT ![index + 1].date = text]
    /\ UNCHANGED <<page, values, effectDeps, isSaving, formData, disabledClicks,
                   isSubmitting, submitLog, memoJ,
                   messages, isLoading, isOpen, input,
                   chatExiting, exiting>>

\* SectionZ: FormDate `Z0400.${index}.date`, handleDateSelect of a day the
\* calendar enables, or <<>> when the selected day is deselected
SignatureDateSelect(index, date) ==
    /\ ~EffectsPending
    /\ index \in 0..(Len(Z0400) - 1)
    /\ IF date = <<>> THEN TRUE ELSE ~calendarDisabled(date)
    /\ Z0400' = [Z0400 EXCEPT
                   ![index + 1].date = IF date # <<>> THEN format(date) ELSE ""]
    /\ UNCHANGED <<page, values, effectDeps, isSaving, formData, disabledClicks,
                   isSubmitting, submitLog, memoJ,
                   messages, isLoading, isOpen, input,
                   chatExiting, exiting>>

\* handleSaveDraft up to its await: formData = form.getValues()
handleSaveDraft ==
    /\ ~EffectsPending
    /\ ~isSaving
    /\ isSaving' = TRUE
    /\ formData' = <<[values |-> values, Z0400 |-> Z0400]>>
    /\ UNCHANGED <<page, values, Z0400, effectDeps, disabledClicks,
                   isSubmitting, submitLog, memoJ,
                   messages, isLoading, isOpen, input,
                   chatExiting, exiting>>

\* handleSaveDraft after the await: finally { setIsSaving(false) }
handleSaveDraftDone ==
    /\ isSaving
    /\ isSaving' = FALSE
    /\ formData' = <<>>
    /\ UNCHANGED <<page, values, Z0400, effectDeps, disabledClicks,
                   isSubmitting, submitLog, memoJ,
                   messages, isLoading, isOpen, input,
                   chatExiting, exiting>>

\* the browser's constraint validation of the form before its submit event:
\* a rendered date input with a text that does not match its pattern
\* attribute blocks the event; no input carries the required attribute
checkValidity(v, list) ==
    /\ \A name \in DateFields :
          (Rendered(v, name) /\ v[name] \notin {Undefined, ""})
              => matchesDatePattern(v[name])
    /\ \A i \in 1..Len(list) :
          list[i].date # "" => matchesDatePattern(list[i].date)

\* click on Submit of a form that fails the constraint validation: the
\* browser reports the input and fires no submit event
onSubmitBlocked ==
    /\ ~EffectsPending
    /\ ~isSubmitting
    /\ ~checkValidity(values, Z0400)
    /\ disabledClicks' = disabledClicks \cup {"submit"}
    /\ UNCHANGED <<page, values, Z0400, effectDeps, isSaving, formData,
                   isSubmitting, submitLog, memoJ,
                   messages, isLoading, isOpen, input,
                   chatExiting, exiting>>

\* onSubmit behind a Submit button that is never disabled
onSubmitNeverDisabled ==
    /\ ~EffectsPending
    /\ Len(submitLog) < MaxSubmits
    /\ checkValidity(values, Z0400)
    /\ isSubmitting' = TRUE
    /\ submitLog' = Append(submitLog, [values |-> values, Z0400 |-> Z0400])
    /\ UNCHANGED <<page, values, Z0400, effectDeps, isSaving, formData,
                   disabledClicks, memoJ,
                   messages, isLoading, isOpen, input,
                   chatExiting, exiting>>

\* click on Submit: form.handleSubmit(onSubmit) has no rule and no resolver
\* to check, so onSubmit(data) runs up to its await; the button is disabled
\* while isSubmitting
onSubmit ==
    /\ ~EffectsPending
    /\ ~isSubmitting
    /\ Len(submitLog) < MaxSubmits
    /\ checkValidity(values, Z0400)
    /\ isSubmitting' = TRUE
    /\ submitLog' = Append(submitLog, [values |-> values, Z0400 |-> Z0400])
    /\ UNCHANGED <<page, values, Z0400, effectDeps, isSaving, formData,
                   disabledClicks, memoJ,
                   messages, isLoading, isOpen, input,
                   chatExiting, exiting>>

\* onSubmit after the await: finally { setIsSubmitting(false) }
onSubmitDone ==
    /\ isSubmitting
    /\ isSubmitting' = FALSE
    /\ UNCHANGED <<page, values, Z0400, effectDeps, isSaving, formData,
                   disabledClicks, submitLog, memoJ,
                   messages, isLoading, isOpen, input,
                   chatExiting, exiting>>

\* the messages of one type, the greeting aside
messagesOf(type) ==
    SelectSeq(Tail(messages), LAMBDA message : message.type = type)

\* the chat windows on the page: the window of the current render when the
\* chat is open, else the closed window while its exit animation runs
chatWindows ==
    IF isOpen THEN {[input |-> input, isLoading |-> isLoading]}
    ELSE Range(chatExiting)

\* click on the chat bubble: setIsOpen(!isOpen); AnimatePresence keeps the
\* closed window on the page, as last rendered, until its exit animation ends
chatToggle ==
    /\ isOpen' = ~isOpen
    /\ chatExiting' =
         IF isOpen THEN <<[input |-> input, isLoading |-> isLoading]>> ELSE <<>>
    /\ UNCHANGED <<page, values, Z0400, effectDeps, isSaving, formData,
                   disabledClicks, isSubmitting, submitLog, memoJ, exiting,
                   messages, isLoading, input>>

\* the exit animation of the closed chat window ends (0.2 s)
chatExitComplete ==
    /\ chatExiting # <<>>
    /\ chatExiting' = <<>>
    /\ UNCHANGED <<page, values, Z0400, effectDeps, isSaving, formData,
                   disabledClicks, isSubmitting, submitLog, memoJ, exiting,
                   messages, isLoading, isOpen, input>>

\* the chat input: onChange={(e) => setInput(e.target.value)},
\* disabled={isLoading}
chatInputChange(text) ==
    /\ \E window \in chatWindows : ~window.isLoading
    /\ input' = text
    /\ UNCHANGED <<page, values, Z0400, effectDeps, isSaving, formData,
                   disabledClicks, isSubmitting, submitLog, memoJ, exiting,
                   messages, isLoading, isOpen, chatExiting>>

\* FAQChatbot.handleSubmit up to its timer, called by the form of a chat
\* window on the page with the input of its render: the question joins the
\* messages.  The input and the send button of the window are disabled
\* while isLoading, the send button also while the input is blank.
chatSubmit ==
    /\ Len(messagesOf("user")) < MaxQuestions
    /\ \E window \in chatWindows :
          /\ ~window.isLoading
          /\ trim(window.input) # <<>>
          /\ messages' =
                Append(messages, [type |-> "user", content |-> window.input])
    /\ input' = <<>>
    /\ isLoading' = TRUE
    /\ UNCHANGED <<page, values, Z0400, effectDeps, isSaving, formData,
                   disabledClicks, isSubmitting, submitLog, memoJ, exiting,
                   isOpen, chatExiting>>

\* the timer of a handleSubmit call, the timers firing in the order of the
\* calls: the reply to the input of that call
chatReply ==
    /\ Len(messagesOf("bot")) < Len(messagesOf("user"))
    /\ LET question == messagesOf("user")[Len(messagesOf("bot")) + 1].content
           answer == findAnswerForQuestion(question)
       IN  messages' =
             Append(messages,
                    [type |-> "bot",
                     content |-> IF answer # Null THEN answer ELSE Fallback])
    /\ isLoading' = FALSE
    /\ UNCHANGED <<page, values, Z0400, effectDeps, isSaving, formData,
                   disabledClicks, isSubmitting, submitLog, memoJ, exiting,
                   isOpen, input, chatExiting>>

----------------------------------------------------------------------------
(* Inputs the user enters *)

\* the options of a group the user clicks on: the first MaxOpt, and Z
Touched(name) ==
    LET options == GroupOptions(name)
    IN  ({options[i] : i \in 1..Min(MaxOpt, Len(options))} \ {"Z"})
            \cup ({"Z"} \cap Range(options))

\* the symptom slots the user answers
TouchedSlots == {SYMPTOM_TYPES[i] : i \in 1..Min(MaxSlots, Len(SYMPTOM_TYPES))}

\* texts typed into an input of a signature entry
SignatureTexts == {"", "J. Smith, RN"}

----------------------------------------------------------------------------
(* Checkbox groups with a Z option, and the skin section *)

ZGroups == {g \in CheckboxGroups : "Z" \in Range(GroupOptions(g))}

NextM ==
    \/ Effects
    \/ \E c \in {"1", "2"} : SelectChange("A0250", c)
    \/ \E c \in Range(HAS_SKIN_CONDITIONS) : SelectChange("M1190", c)
    \/ \E g \in ZGroups : \E o \in Touched(g) : \E ch \in CheckedState :
          CheckboxChange(g, o, ch)

SpecM == Init /\ [][NextM]_vars

----------------------------------------------------------------------------
(* The signature list *)

NextZ ==
    \/ Effects
    \/ ClickAddSignature
    \/ \E i \in 0..(MAX_SIGNATURES - 1) : ClickRemove(i)
    \/ \E i \in 0..(MAX_SIGNATURES - 1) : \E dis \in BOOLEAN :
          ClickStaleRemove([index |-> i, disabled |-> dis])
    \/ \E i \in 0..(MAX_SIGNATURES - 1) : \E dis \in BOOLEAN :
          exitComplete([index |-> i, disabled |-> dis])
    \/ \E i \in 0..(MaxTyped - 1) : \E t \in SignatureTexts :
          SignatureInputChange(i, "signature", t)

SpecZ == Init /\ [][NextZ]_vars

\* React runs a pending effect without waiting for a user event
FairSpecZ == SpecZ /\ WF_vars(SectionZEffect)

----------------------------------------------------------------------------
(* Section J: symptom screening, follow-up visit, reassessment *)

\* a date picked in the calendar
CalendarDates == {<<2024, 1, 5>>}

NextJ ==
    \/ Effects
    \/ \E c \in Range(YES_NO_OPTIONS) : SelectChange("J2050.A", c)
    \/ \E d \in CalendarDates : handleDateSelect("J2050.B", d)
    \/ \E k \in TouchedSlots : \E c \in {"1", "2", "3"} :
          SelectChange(FieldName("J2051", k), c)
    \/ \E c \in Range(YES_NO_OPTIONS) : SelectChange("J2052.A", c)
    \/ \E d \in CalendarDates : handleDateSelect("J2052.B", d)
    \/ SelectChange("J2052.C", "1")
    \/ \E k \in TouchedSlots : SelectChange(FieldName("J2053", k), "3")

SpecJ == Init /\ [][NextJ]_vars

----------------------------------------------------------------------------
(* Section N: opioids and bowel regimen *)

NextN ==
    \/ Effects
    \/ \E f \in {"N0500.A", "N0510.A", "N0520.A"} :
          \E c \in Range(SelectOptions[f]) : SelectChange(f, c)
    \/ \E f \in {"N0500.B", "N0510.B", "N0520.B"} :
          \E d \in CalendarDates \cup {<<>>} : handleDateSelect(f, d)
    \/ handleTextInput("N0520.B", "2024-01-10")

SpecN == Init /\ [][NextN]_vars

----------------------------------------------------------------------------
(* Section A: the discriminant and the admission-only block *)

AdmissionOnlyFields ==
    {"A0205", "A0215", "A0998", "A1110.A", "A1110.B", "A1805"}
        \cup GroupPaths("A1005") \cup GroupPaths("A1010")

NextA ==
    \/ Effects
    \/ \E c \in {"1", "2", "9"} : SelectChange("A0250", c)
    \/ \E c \in {"01"} : SelectChange("A0215", c)
    \/ \E f \in {"A0998", "A1110.A"} : InputChange(f, "Spanish")
    \/ \E g \in {"A1005", "A1010"} : \E o \in Touched(g) : \E ch \in CheckedState :
          CheckboxChange(g, o, ch)

SpecA == Init /\ [][NextA]_vars

----------------------------------------------------------------------------
(* Save Draft while the skin and medication sections are edited *)

NextSave ==
    \/ Effects
    \/ \E f \in {"M1190", "N0500.A", "N0510.A", "N0520.A"} :
          \E c \in Range(SelectOptions[f]) : SelectChange(f, c)
    \/ \E ch \in {True, False} : CheckboxChange("M1195", "A", ch)
    \/ \E d \in CalendarDates : handleDateSelect("N0520.B", d)
    \/ handleSaveDraft
    \/ handleSaveDraftDone

SpecSave == Init /\ [][NextSave]_vars

----------------------------------------------------------------------------
(* The skin and medication sections edited together *)

NextReconcile ==
    \/ Effects
    \/ \E f \in {"M1190", "N0500.A", "N0510.A", "N0520.A"} :
          \E c \in Range(SelectOptions[f]) : SelectChange(f, c)
    \/ \E g \in {"M1195", "M1200"} : \E ch \in {True, False} :
          CheckboxChange(g, "A", ch)
    \/ \E d \in CalendarDates : handleDateSelect("N0520.B", d)

SpecReconcile == Init /\ [][NextReconcile]_vars

----------------------------------------------------------------------------
(* Checkbox groups with and without a Z option toggled side by side *)

ToggledGroups == {"M1195", "M1200", "A1400"}

\* the options clicked in a group: the first one, the last of A1400 ("K - No
\* payer source") and Z
ToggledOptions(g) == {"A", "K", "Z"} \cap Range(GroupOptions(g))

NextToggle ==
    \/ Effects
    \/ SelectChange("M1190", "1")
    \/ \E g \in ToggledGroups : \E o \in ToggledOptions(g) :
          \E ch \in CheckedState : CheckboxChange(g, o, ch)

SpecToggle == Init /\ [][NextToggle]_vars

----------------------------------------------------------------------------
(* Submission of a form whose dates are typed and picked *)

\* texts typed into the input of A0220: a date, a future date, a day that
\* does not exist, and a text that does not match the pattern
TypedDateTexts == {"2024-01-10", "2099-12-31", "2024-02-30", "2024-1-5"}

\* days clicked in the calendar
ClickedDays == {<<2024, 1, 5>>, <<2099, 12, 31>>}

NextSubmit ==
    \/ Effects
    \/ SelectChange("J2050.A", "1")
    \/ \E t \in TypedDateTexts : handleTextInput("A0220", t)
    \/ \E d \in ClickedDays : handleDateSelect("J2050.B", d)
    \/ onSubmit
    \/ onSubmitDone
    \/ handleSaveDraft
    \/ handleSaveDraftDone

SpecSubmit == Init /\ [][NextSubmit]_vars

----------------------------------------------------------------------------
(* Clicks on Submit and on Save Draft while one date is typed *)

\* texts typed into the input of A0220: a date and a text that does not
\* match the pattern; the texts typed into the birth date A0900 and into
\* the date of the first signature entry do not match it either
AttemptTexts == {"2024-01-10", "2024-1-5"}

NextAttempt ==
    \/ Effects
    \/ \E t \in AttemptTexts : handleTextInput("A0220", t)
    \/ handleTextInput("A0900", "1950-1-1")
    \/ SignatureDateTextInput(0, "2024-1-5")
    \/ onSubmit
    \/ onSubmitBlocked
    \/ onSubmitDone
    \/ handleSaveDraft
    \/ handleSaveDraftDone

SpecAttempt == Init /\ [][NextAttempt]_vars

----------------------------------------------------------------------------
(* The calendar of one date field *)

\* the days of the calendar the user clicks on: every day of the years
\* entered, the days after maxDate being disabled
CalendarDays ==
    {g \in DigitGroups : g[2] \in 1..12 /\ g[3] \in 1..getDaysInMonth(g[1], g[2])}

NextCalendar ==
    \/ Effects
    \/ \E d \in CalendarDays \cup {<<>>} : handleDateSelect("A0220", d)
    \/ \E d \in ClickedDays \cup {<<>>} : SignatureDateSelect(0, d)
    \/ \E part \in {"title", "sections"} :
          SignatureInputChange(0, part, "J. Smith, RN")

SpecCalendar == Init /\ [][NextCalendar]_vars

\* the timers awaited by onSubmit and handleSaveDraft fire
FairSpecAttempt ==
    SpecAttempt /\ WF_vars(onSubmitDone) /\ WF_vars(handleSaveDraftDone)

----------------------------------------------------------------------------
(* Questions put to the chatbot *)

\* the example questions of the README
WhatIsSectionJ ==
    <<"W", "h", "a", "t", " ", "i", "s", " ", "s", "e", "c", "t", "i", "o",
      "n", " ", "J", "?">>

WhatAreSkipPatterns ==
    <<"W", "h", "a", "t", " ", "a", "r", "e", " ", "s", "k", "i", "p", " ",
      "p", "a", "t", "t", "e", "r", "n", "s", "?">>

\* the texts typed into the chat input: two example questions, a bare
\* topic ("skip patterns"), a question without keyword ("Hello?") and a
\* blank text
Questions ==
    {WhatIsSectionJ, WhatAreSkipPatterns,
     <<"s", "k", "i", "p", " ", "p", "a", "t", "t", "e", "r", "n", "s">>,
     <<"H", "e", "l", "l", "o", "?">>,
     <<" ", " ">>}

NextChat ==
    \/ Effects
    \/ chatToggle
    \/ chatExitComplete
    \/ \E q \in Questions : chatInputChange(q)
    \/ chatSubmit
    \/ chatReply

SpecChat == Init /\ [][NextChat]_vars

----------------------------------------------------------------------------
(* Properties *)

\* C1: in every checkbox group with a Z option (A1010, M1195, M1200), Z is
\* never true together with another option of the same group.
MutualExclusion ==
    \A g \in ZGroups :
        \A o \in Range(GroupOptions(g)) \ {"Z"} :
            ~(values[FieldName(g, "Z")] = True /\ values[FieldName(g, o)] = True)

\* Z checked after a sibling had been set in A1010 and M1200, a sibling
\* checked in M1195 after a click on it
MutualExclusionWitness ==
    /\ values["A1010.Z"] = True /\ values["A1010.A"] = False
    /\ values["M1200.Z"] = True /\ values["M1200.B"] = False
    /\ values["M1195.A"] = True /\ values["M1195.Z"] = False
    /\ ~EffectsPending

\* C6: when M1190 is not "1" and the clearing effect of that render has run,
\* every option of M1195 and of M1200 is false.
SkinDetailsCleared ==
    (~SectionMEffectPending /\ values["M1190"] # "1")
        => \A p \in GroupPaths("M1195") \cup GroupPaths("M1200") :
              values[p] = False

\* M1190 answered "0" on a form whose clearing effect has run
SkinDetailsClearedWitness ==
    /\ values["M1190"] = "0"
    /\ effectDeps.M = False
    /\ \A p \in GroupPaths("M1195") \cup GroupPaths("M1200") : values[p] = False

\* C9: the signature list never has more than 12 entries, and from the first
\* run of the SectionZ initialisation effect on it has at least one entry.
CardinalityBoundAfterInit ==
    /\ Len(Z0400) <= MAX_SIGNATURES
    /\ effectDeps.Z # -1 => Len(Z0400) >= 1

\* C10: a click on a Remove button when one entry is left, and a click on
\* Add Signature when 12 entries are present, leave the list as it was.
RejectedMutationLeavesList ==
    [][/\ (Len(Z0400) = 1 /\
            (\/ \E i \in 0..(MAX_SIGNATURES - 1) : ClickRemove(i)
             \/ \E j \in 0..(MAX_SIGNATURES - 1) : \E dis \in BOOLEAN :
                   ClickStaleRemove([index |-> j, disabled |-> dis])))
            => Z0400' = Z0400
       /\ (ClickAddSignature /\ Len(Z0400) = MAX_SIGNATURES)
            => Z0400' = Z0400]_vars

\* a field that holds no value
Empty(value) == value \in {Undefined, ""}

\* an option of a checkbox group that is not checked
Unchecked(value) == value \in {Undefined, False}

J2051Paths == {FieldName("J2051", k) : k \in Range(SYMPTOM_TYPES)}

J2053Paths == {FieldName("J2053", k) : k \in Range(SYMPTOM_TYPES)}

\* the fields that depend on J2050.A at levels 2 and 3
J2050Dependents == J2051Paths \cup {"J2052.A", "J2052.B", "J2052.C"} \cup J2053Paths

\* C2: once J2050.A is set to a value other than "1" and the effects have
\* run, no field of J2051, J2052 and J2053 is active and none holds a value.
TransitiveCascade ==
    (~EffectsPending /\ values["J2050.A"] \notin {Undefined, "1"})
        => \A p \in J2050Dependents :
              ~Rendered(values, p) /\ Empty(values[p])

\* C3: J2051 is active iff J2050.A = "1"; J2052 is active iff J2050.A = "1"
\* and one of J2051.A-H is "2" or "3"; J2053 is active iff J2052 is active
\* and J2052.A = "1"; J2052.B and J2052.C are active only inside J2052.
VisibilityIsConjunction ==
    LET screening == values["J2050.A"] = "1"
        moderateOrSevere == \E p \in J2051Paths : values[p] \in {"2", "3"}
    IN  /\ \A p \in J2051Paths : Rendered(values, p) <=> screening
        /\ Rendered(values, "J2052.A") <=> (screening /\ moderateOrSevere)
        /\ \A p \in J2053Paths :
              Rendered(values, p)
                  <=> (Rendered(values, "J2052.A") /\ values["J2052.A"] = "1")
        /\ \A p \in {"J2052.B", "J2052.C"} :
              Rendered(values, p) => Rendered(values, "J2052.A")

\* Scenario A on stale values: screening answered "0" while J2051.A still
\* holds "3" and J2052.A still holds "1"; J2052 and J2053 are not active
VisibilityIsConjunctionWitness ==
    /\ values["J2050.A"] = "0"
    /\ values["J2051.A"] = "3"
    /\ values["J2052.A"] = "1"
    /\ values["J2053.A"] = "3"
    /\ ~Rendered(values, "J2052.A")
    /\ ~Rendered(values, "J2052.B")
    /\ ~Rendered(values, "J2053.A")

SkinAndBowelFields ==
    GroupPaths("M1195") \cup GroupPaths("M1200") \cup {"N0520.A", "N0520.B"}

\* C4: the record a Save Draft reads never holds a value in a field of
\* M1195, M1200 or N0520 that is inactive at that moment.
NoStaleValueObserved ==
    formData # <<>>
        => \A p \in SkinAndBowelFields :
              ~Rendered(formData[1].values, p)
                  => (Empty(formData[1].values[p])
                        \/ Unchecked(formData[1].values[p]))

\* C5: when neither N0500.A nor N0510.A is "1" and the clearing effect of
\* that render has run, N0520.A and N0520.B hold no value.
BowelRegimenCleared ==
    (~SectionNEffectPending
        /\ values["N0500.A"] # "1" /\ values["N0510.A"] # "1")
        => (values["N0520.A"] = Undefined /\ values["N0520.B"] = Undefined)

\* both opioid flags answered "0" after the scheduled opioid had been "1"
\* (its date is still stored), the effect has run and N0520 is empty
BowelRegimenClearedWitness ==
    /\ values["N0500.A"] = "0" /\ values["N0510.A"] = "0"
    /\ values["N0500.B"] = "2024-01-05"
    /\ effectDeps.N = False
    /\ values["N0520.A"] = Undefined /\ values["N0520.B"] = Undefined

\* C7: after the effects have run, a conditional sub-field holds no value
\* when its trigger does not show it.
NoStaleSubField ==
    ~EffectsPending =>
        /\ values["J2050.A"] # "1" => Empty(values["J2050.B"])
        /\ values["J2052.A"] # "1" => Empty(values["J2052.B"])
        /\ values["J2052.A"] # "0" => Empty(values["J2052.C"])
        /\ values["N0500.A"] # "1" => Empty(values["N0500.B"])
        /\ values["N0510.A"] # "1" => Empty(values["N0510.B"])
        /\ values["N0520.A"] # "2" => Empty(values["N0520.B"])

\* C8: when A0250 is not "1" and the effects have run, no admission-only
\* field holds a value.
AdmissionOnlyDropped ==
    (~EffectsPending /\ values["A0250"] # "1")
        => \A p \in AdmissionOnlyFields :
              Empty(values[p]) \/ Unchecked(values[p])

\* the fields rendered with the required prop
RequiredFields ==
    {"A0050", "A0100_A", "A0100_B", "A0220", "A0250", "A0215", "A0500_A",
     "A0500_B", "A0500_C", "A0500_D", "A0600_A", "A0600_B", "A0700", "A0810",
     "A0900", "A1110.A", "A1110.B", "J0050", "M1190", "N0500.A", "N0500.B",
     "N0510.A", "N0510.B", "N0520.A", "N0520.B", "Z0350", "Z0500.A",
     "Z0500.B", "J2050.A", "J2050.B", "J2052.A", "J2052.B", "J2052.C"}
        \cup J2051Paths \cup J2053Paths

\* the checkbox groups rendered with the required prop
RequiredGroups == {"A1005", "A1010", "A1400", "M1195", "M1200"}

\* every active required field of a record holds a value: a required field
\* is not empty, a required group has an option checked, and every
\* signature entry has its four required parts
Complete(record) ==
    /\ \A p \in RequiredFields :
          Rendered(record.values, p) => ~Empty(record.values[p])
    /\ \A g \in RequiredGroups :
          (\E p \in GroupPaths(g) : Rendered(record.values, p))
              => \E p \in GroupPaths(g) : record.values[p] = True
    /\ \A i \in 1..Len(record.Z0400) :
          /\ record.Z0400[i].signature # ""
          /\ record.Z0400[i].title # ""
          /\ record.Z0400[i].sections # ""
          /\ record.Z0400[i].date # ""

\* C11: every record onSubmit has received has a value in each of its
\* active required fields.
SubmittedRecordsComplete ==
    \A i \in 1..Len(submitLog) : Complete(submitLog[i])

\* a text that is a calendar date written yyyy-MM-dd
IsCalendarDate(text) == matchesDatePattern(text) /\ isValid(parse(text))

\* DATE_RELATIONSHIPS: the chronological chain of the date fields
DateChain == <<"A0220", "J2050.B", "J2052.B", "Z0350">>

\* the pairs <<earlier, later>> of date fields: the chain, the verification
\* date Z0500.B on or after the completion date and every signature date,
\* and each signature date, written "Z0400", not before the assessment
\* date and not after the completion date
DateOrder ==
    {<<DateChain[i], DateChain[j]>> :
        <<i, j>> \in {y \in (1..Len(DateChain)) \X (1..Len(DateChain)) :
                         y[1] < y[2]}}
        \cup {<<f, "Z0500.B">> : f \in Range(DateChain) \cup {"Z0400"}}
        \cup {<<"A0220", "Z0400">>, <<"Z0400", "Z0350">>}

\* the present, active dates a record holds in a field of the order
DatesAt(record, field) ==
    IF field = "Z0400"
      THEN {[field |-> "Z0400.date", index |-> i,
             date |-> parse(record.Z0400[i].date)] :
               i \in {j \in 1..Len(record.Z0400) :
                         IsCalendarDate(record.Z0400[j].date)}}
      ELSE IF /\ Rendered(record.values, field)
              /\ IsCalendarDate(record.values[field])
        THEN {[field |-> field, index |-> 0,
               date |-> parse(record.values[field])]}
        ELSE {}

\* the pairs of fields of a record that violate the order
OrderingViolations(record) ==
    UNION {{<<a.field, a.index, b.field, b.index>> :
               <<a, b>> \in {x \in DatesAt(record, k[1]) \X DatesAt(record, k[2]) :
                               isAfter(x[1].date, x[2].date)}} :
             k \in DateOrder}

\* C12: no record onSubmit has received holds two present, active date
\* fields that violate the chronological order A0220 <= J2050.B <= J2052.B
\* <= Z0350 <= Z0500.B, with each Z0400 date between A0220 and Z0350.
OrderingViolationsBlocked ==
    \A i \in 1..Len(submitLog) : OrderingViolations(submitLog[i]) = {}

\* the texts held by the date fields of a record, active or not
DateTexts(record) ==
    {record.values[name] : name \in DateFields}
        \cup {record.Z0400[i].date : i \in 1..Len(record.Z0400)}

\* C13: no date field of a record onSubmit has received holds a date later
\* than the day of the submission.
NoFutureDates ==
    \A i \in 1..Len(submitLog) :
        \A text \in DateTexts(submitLog[i]) :
            IsCalendarDate(text) => ~isAfter(parse(text), Today)

\* the records handed off so far: those onSubmit has received and the one
\* read by a Save Draft in flight
HandedOff == Range(submitLog) \cup Range(formData)

\* C14: every date field of a record handed off by Submit or by Save Draft
\* is empty or holds a calendar date written yyyy-MM-dd.
SingleDateFormat ==
    \A record \in HandedOff :
        \A text \in DateTexts(record) : Empty(text) \/ IsCalendarDate(text)

\* C15: whenever J2052 is active, J2052.A = "1" makes J2052.B and J2053.A-H
\* active and J2052.C inactive, J2052.A = "0" makes J2052.C active and
\* J2052.B and J2053.A-H inactive; these fields are required; J2052.B and
\* J2052.C are never both active.
FollowUpBranches ==
    /\ Rendered(values, "J2052.A") =>
          /\ values["J2052.A"] = "1" =>
                /\ Rendered(values, "J2052.B")
                /\ \A p \in J2053Paths : Rendered(values, p)
                /\ ~Rendered(values, "J2052.C")
          /\ values["J2052.A"] = "0" =>
                /\ Rendered(values, "J2052.C")
                /\ ~Rendered(values, "J2052.B")
                /\ \A p \in J2053Paths : ~Rendered(values, p)
    /\ ({"J2052.B", "J2052.C"} \cup J2053Paths) \subseteq RequiredFields
    /\ ~(Rendered(values, "J2052.B") /\ Rendered(values, "J2052.C"))

\* the follow-up visit answered "0" after it had been "1": the reason is
\* active and answered, the date picked before is still stored and inactive
FollowUpBranchesWitness ==
    /\ Rendered(values, "J2052.A")
    /\ values["J2052.A"] = "0"
    /\ values["J2052.B"] = "2024-01-05"
    /\ values["J2052.C"] = "1"
    /\ Rendered(values, "J2052.C")
    /\ ~Rendered(values, "J2052.B")

\* C16: N0520.A is active iff N0500.A = "1" or N0510.A = "1"; N0520.B is
\* active iff N0520.A is active and N0520.A = "2"; both are required.
BowelRegimenActivation ==
    LET initiated == values["N0500.A"] = "1" \/ values["N0510.A"] = "1"
    IN  /\ Rendered(values, "N0520.A") <=> initiated
        /\ Rendered(values, "N0520.B")
              <=> (initiated /\ values["N0520.A"] = "2")
        /\ {"N0520.A", "N0520.B"} \subseteq RequiredFields

\* one opioid flag "1" and the other "0": the bowel regimen is active, it is
\* answered "2" and its date is active and picked
BowelRegimenActivationWitness ==
    /\ values["N0500.A"] = "1" /\ values["N0510.A"] = "0"
    /\ values["N0520.A"] = "2"
    /\ Rendered(values, "N0520.B")
    /\ values["N0520.B"] = "2024-01-05"

\* C17: every admission-only field is active iff A0250 = "1"; with any of
\* the codes "2" to "9", or no code, in A0250 none of them is active.
VariantSelection ==
    /\ \A p \in AdmissionOnlyFields :
          Rendered(values, p) <=> values["A0250"] = "1"
    /\ \A c \in (Range(REASON_FOR_RECORD) \ {"1"}) \cup {Undefined} :
          \A p \in AdmissionOnlyFields :
              ~Rendered(setValue(values, "A0250", c), p)

\* an Admission record whose admission-only fields are active and filled
VariantSelectionWitness ==
    /\ values["A0250"] = "1"
    /\ \A p \in AdmissionOnlyFields : Rendered(values, p)
    /\ values["A0215"] = "01"
    /\ values["A0998"] = "Spanish"
    /\ values["A1005.A"] = True
    /\ values["A1010.Z"] = True

\* the codes of REASON_FOR_RECORD that belong to the assessment of a page:
\* "2" (HUV1) and "3" (HUV2) for Update Visit, "9" (DC) for Discharge
VariantCodes(p) == IF p = "update-visit" THEN {"2", "3"} ELSE {"9"}

\* C18: the A0250 a page gives to the record it creates is a code of the
\* assessment variant of that page.
DiscriminantPreset == defaultValues(page)["A0250"] \in VariantCodes(page)

\* a submission has run to its success alert and none is in flight
Submitted == Len(submitLog) >= 1 /\ ~isSubmitting

\* C19: Submitted is terminal: once a submission of the record has
\* succeeded, no step changes a field value or the signature list, and no
\* further submission is accepted.
SubmittedIsTerminal ==
    [][Submitted =>
          (values' = values /\ Z0400' = Z0400 /\ submitLog' = submitLog)]_vars

\* C20: a second run of the clearing effects on the result of the first
\* run changes neither the record nor the active set.
Idempotence ==
    LET once == reconcile(values)
        twice == reconcile(once)
    IN  twice = once /\ ActiveSet(twice) = ActiveSet(once)

\* both opioid flags away from "1" while N0520.A and N0520.B still hold a
\* value and a shown skin condition is checked: the first run clears N0520
\* and keeps M1195
IdempotenceWitness ==
    /\ SectionNEffectPending
    /\ ~showBowelRegimen(values)
    /\ values["N0520.A"] = "2"
    /\ values["N0520.B"] = "2024-01-05"
    /\ values["M1190"] = "1"
    /\ values["M1195.A"] = True
    /\ reconcile(values) # values
    /\ reconcile(values)["M1195.A"] = True

\* C21: the moderate/severe flag kept by the useMemo of SectionJ equals the
\* predicate recomputed from the current J2050.A and J2051.A-H, and the
\* activity of J2052 read from the flag is the activity computed from the
\* stored values alone, whatever the mutations that led to them.
Determinism ==
    /\ memoJ.value
          <=> (values["J2050.A"] = "1"
                 /\ \E p \in J2051Paths : values[p] \in {"2", "3"})
    /\ memoJ.value <=> Rendered(values, "J2052.A")
    /\ memoJ.deps = memoDeps(values)

\* J2050.A back at "0" after a severe symptom had been entered under "1":
\* the flag is false although J2051.A still holds "3"
DeterminismWitness ==
    /\ values["J2050.A"] = "0"
    /\ values["J2051.A"] = "3"
    /\ values["J2052.A"] = "1"
    /\ ~memoJ.value

\* a click on one of the clicked options of checkbox group g, whatever the
\* reported state
ToggleIn(g) ==
    \E o \in ToggledOptions(g) : \E ch \in CheckedState :
        CheckboxChange(g, o, ch)

\* C22: a check or uncheck of an option of a checkbox group changes no
\* value outside that group: the options of the other groups, the fields
\* that are not in a group and the signature list stay as they were.
ExclusionIsLocal ==
    [][\A g \in CheckboxGroups :
          ToggleIn(g) =>
              /\ \A p \in Paths \ GroupPaths(g) : values'[p] = values[p]
              /\ Z0400' = Z0400]_vars

\* Z checked in M1195 with a sibling unchecked by it, while options of M1200
\* and of A1400 are checked and M1190 keeps its code
ExclusionIsLocalWitness ==
    /\ values["M1195.Z"] = True /\ values["M1195.A"] = False
    /\ values["M1200.A"] = True
    /\ values["A1400.A"] = True
    /\ values["M1190"] = "1"

\* C24: after a toggle that reports true, false or "indeterminate" the
\* toggled option holds true when true was reported and false otherwise,
\* and no option of a checkbox group holds anything but true or false once
\* it has been written.
StrictBooleans ==
    [][\A g \in CheckboxGroups : \A o \in ToggledOptions(g) :
          \A ch \in CheckedState :
              CheckboxChange(g, o, ch) =>
                  /\ values'[FieldName(g, o)] = (IF ch = True THEN True ELSE False)
                  /\ \A p \in GroupPaths(g) :
                        values'[p] \in {Undefined, True, False}]_vars

\* options written true and false in a group with Z and in a group without
StrictBooleansWitness ==
    /\ values["M1200.A"] = True /\ values["M1200.Z"] = False
    /\ values["A1400.K"] = False /\ values["A1400.A"] = True

\* C27: an uncheck of any option of any group, and a check of an option of
\* a group without a Z option, change the toggled option and nothing else.
PlainToggleChangesOneValue ==
    [][\A g \in CheckboxGroups : \A o \in ToggledOptions(g) :
          (\/ CheckboxChange(g, o, False)
           \/ CheckboxChange(g, o, Indeterminate)
           \/ ("Z" \notin Range(GroupOptions(g)) /\ CheckboxChange(g, o, True)))
              => \A p \in Paths \ {FieldName(g, o)} : values'[p] = values[p]]_vars

\* "K - No payer source" true together with another payer, and Z of M1195
\* unchecked again with the sibling it had cleared still false
PlainToggleWitness ==
    /\ values["A1400.K"] = True /\ values["A1400.A"] = True
    /\ values["M1195.Z"] = False /\ values["M1195.A"] = False
    /\ values["M1200.Z"] = True

\* a click on the Submit button
ClickSubmit == onSubmit \/ onSubmitBlocked

\* the record of the form fails validation: a date input is refused by the
\* browser, an active required field is empty, a date field holds a text
\* that is no calendar date or a date after today, or two dates are out of
\* order
FailsValidation ==
    LET record == [values |-> values, Z0400 |-> Z0400]
    IN  \/ ~checkValidity(values, Z0400)
        \/ ~Complete(record)
        \/ \E text \in DateTexts(record) :
              /\ ~Empty(text)
              /\ IsCalendarDate(text) => isAfter(parse(text), Today)
        \/ OrderingViolations(record) # {}

\* C23: a click on Submit of a form that fails validation hands nothing
\* off and changes no field value, no signature entry and no flag of the
\* page.
FailedSubmitLeavesRecord ==
    [][(ClickSubmit /\ FailsValidation) =>
          /\ submitLog' = submitLog
          /\ values' = values
          /\ Z0400' = Z0400
          /\ isSubmitting' = isSubmitting]_vars

\* C25: every step of the calendar that changes the stored text is either
\* the deselection, which stores the empty text, or the pick of a day whose
\* stored text matches the pattern and is read back by parse as that day.
RoundTrip ==
    [][values'["A0220"] # values["A0220"] =>
          IF values'["A0220"] = "" THEN handleDateSelect("A0220", <<>>)
          ELSE /\ matchesDatePattern(values'["A0220"])
               /\ isValid(parse(values'["A0220"]))
               /\ handleDateSelect("A0220", parse(values'["A0220"]))]_vars

\* the leap day picked in the calendar and stored as text
RoundTripWitness ==
    /\ values["A0220"] = "2024-02-29"
    /\ parse(values["A0220"]) = <<2024, 2, 29>>

SkinTargets == GroupPaths("M1195") \cup GroupPaths("M1200")

BowelTargets == {"N0520.A", "N0520.B"}

\* a step leaves the value and the activity of every field outside targets,
\* and the signature list, as they were
WritesOnly(targets) ==
    /\ \A p \in Paths \ targets :
          /\ values'[p] = values[p]
          /\ Rendered(values', p) <=> Rendered(values, p)
    /\ Z0400' = Z0400

\* C26: the SectionM clearing pass changes only M1195.* and M1200.*, the
\* SectionN clearing pass changes only N0520.A and N0520.B; neither changes
\* a trigger, another field, the signature list, or the activity of a
\* field outside its targets.
ClearingFrame ==
    [][/\ SectionMEffect => WritesOnly(SkinTargets)
       /\ SectionNEffect => WritesOnly(BowelTargets)]_vars

\* the skin pass has cleared a checked condition after M1190 went to "0",
\* and the answered bowel regimen with its date is as it was
ClearingFrameWitness ==
    /\ values["M1190"] = "0"
    /\ values["M1195.A"] = False
    /\ effectDeps.M = False
    /\ values["N0500.A"] = "1"
    /\ values["N0520.A"] = "2"
    /\ values["N0520.B"] = "2024-01-05"

\* C28: from the empty default list the SectionZ init effect leads, with no
\* user action, to a list of exactly one blank entry; a run of the effect
\* appends one blank entry when the list is empty and nothing otherwise.
SignatureInitialisation ==
    /\ <>(Z0400 = <<EmptySignature>>)
    /\ [][SectionZEffect =>
            Z0400' = (IF Len(Z0400) = 0 THEN <<EmptySignature>> ELSE Z0400)]_vars

\* the list right after the init effect has appended its entry: the effect
\* is due once more for the new length and no user event has been handled
SignatureInitialisationWitness ==
    /\ Z0400 = <<EmptySignature>>
    /\ effectDeps.Z = 0
    /\ SectionZEffectPending

\* C29: while a submission is in flight no other submission starts, and
\* while a Save Draft is in flight no other Save Draft starts; every
\* submission and every Save Draft in flight ends with its flag reset;
\* Save Draft changes no field value and no signature entry.
OneInFlight ==
    /\ [][isSubmitting => submitLog' = submitLog]_vars
    /\ [][isSaving => formData' \in {formData, <<>>}]_vars
    /\ [][(handleSaveDraft \/ handleSaveDraftDone) =>
            (values' = values /\ Z0400' = Z0400)]_vars
    /\ isSubmitting ~> ~isSubmitting
    /\ isSaving ~> ~isSaving

\* a second submission in flight after the first has ended, together with
\* a Save Draft in flight
OneInFlightWitness ==
    /\ isSubmitting
    /\ isSaving
    /\ Len(submitLog) = 2
    /\ formData # <<>>

\* the answer of the FAQS entry of a topic
answerOf(id) == FAQS[CHOOSE i \in 1..Len(FAQS) : FAQS[i].id = id].answer

\* C30: a question that names a topic is answered with that topic's entry,
\* the k-th reply answering the k-th question: every reply to "What is
\* section J?" is the Section J answer and every reply to "What are skip
\* patterns?" is the skip-patterns answer, each reply being the answer of the
\* first entry of FAQS a keyword of which the lower-cased question includes,
\* and the fallback message when there is none.
TopicAnswered ==
    \A k \in 1..Len(messagesOf("bot")) :
        LET question == messagesOf("user")[k].content
            reply == messagesOf("bot")[k].content
        IN  /\ reply = (IF findAnswerForQuestion(question) = Null
                          THEN Fallback
                          ELSE findAnswerForQuestion(question))
            /\ question = WhatIsSectionJ => reply = answerOf("section-j")
            /\ question = WhatAreSkipPatterns =>
                  reply = answerOf("skip-patterns")

====
